---- MODULE Spec2Model ----
(***************************************************************************)
(* Flow aggregation and protocol classification of cyber/p1/traffic.py.    *)
(*                                                                         *)
(* A decoded packet (what scapy's rdpcap yields) is a record               *)
(*   layers : the set of layer names present ("IP", "TCP", "UDP", "ICMP")  *)
(*   ip     : [src, dst, proto]     read only when "IP" is in layers       *)
(*   tcp    : [sport, dport, flags] read only when "TCP" is in layers      *)
(*   udp    : [sport, dport]        read only when "UDP" is in layers      *)
(*   len    : len(packet), the wire length in bytes                        *)
(*   time   : packet.time, here in whole time units                        *)
(* The dict `flows` is an insertion-ordered sequence of entries            *)
(* [k |-> key tuple, v |-> Flow object]; Python's None is the empty tuple. *)
(***************************************************************************)
EXTENDS Integers, Sequences, FiniteSets

VARIABLES
    pc,        \* position in aggregate_flows: "loop" or "done"
    packets,   \* the packets of the capture iterated so far, in order
    flows,     \* the dict flows of aggregate_flows
    owner,     \* history: owner[i] = oid of the Flow packets[i] was added to, 0 if skipped
    result,    \* the returned list(flows.values()), <<>> before the return
    cpc,       \* position of the single-packet run: "start", "classified", "keyed", "labelled"
    cpkt,      \* the packet handed to classify_protocol / get_flow_key / label_packets
    label,     \* what classify_protocol returned for cpkt
    ckey,      \* what get_flow_key returned for cpkt
    tag,       \* the label label_packets of tagging.py paired with cpkt
    spc,       \* position of print_stats: "start" or "printed"
    sflows,    \* the list handed to print_stats
    stats      \* the values print_stats reports, NoneVal before it ran

aggVars == <<pc, packets, flows, owner, result>>
clsVars == <<cpc, cpkt, label, ckey, tag>>
statVars == <<spc, sflows, stats>>
vars == <<pc, packets, flows, owner, result, cpc, cpkt, label, ckey, tag,
          spc, sflows, stats>>

----------------------------------------------------------------------------
(* Bounds and program constants *)

MaxPackets == 4

HTTPS_PORT == 443
HTTP_PORT == 80
DNS_PORT == 53

NoneVal == <<>>

----------------------------------------------------------------------------
(* Packets *)

NoIp == [src |-> "", dst |-> "", proto |-> 0]
NoTcp == [sport |-> 0, dport |-> 0, flags |-> 0]
NoUdp == [sport |-> 0, dport |-> 0]

HasLayer(packet, layer) == layer \in packet.layers

\* scapy's FlagValue.__str__ for TCP flags: one letter per set bit, in bit order.
FlagNames == <<"F", "S", "R", "P", "A", "U", "E", "C", "N">>

RECURSIVE FlagStrFrom(_, _)
FlagStrFrom(value, i) ==
    IF i > Len(FlagNames) THEN <<>>
    ELSE IF (value \div (2 ^ (i - 1))) % 2 = 1
         THEN <<FlagNames[i]>> \o FlagStrFrom(value, i + 1)
         ELSE FlagStrFrom(value, i + 1)

FlagStr(value) == FlagStrFrom(value, 1)

CharIn(c, s) == \E i \in 1..Len(s) : s[i] = c

----------------------------------------------------------------------------
(* classify_protocol and get_flow_key *)

\* Variant: the port 80 test placed before the port 443 test.
classify_protocol_http_first(packet) ==
    IF HasLayer(packet, "ICMP") THEN "ICMP"
    ELSE IF HasLayer(packet, "TCP") THEN
        IF packet.tcp.sport = HTTP_PORT \/ packet.tcp.dport = HTTP_PORT THEN "HTTP"
        ELSE IF packet.tcp.sport = HTTPS_PORT \/ packet.tcp.dport = HTTPS_PORT THEN "HTTPS"
        ELSE "TCP"
    ELSE IF HasLayer(packet, "UDP") THEN
        IF packet.udp.sport = DNS_PORT \/ packet.udp.dport = DNS_PORT THEN "DNS"
        ELSE "UDP"
    ELSE "Otro"

\* Variant: the fallback label carries the IP protocol number.
classify_protocol_other_n(packet) ==
    IF HasLayer(packet, "ICMP") THEN "ICMP"
    ELSE IF HasLayer(packet, "TCP") THEN
        IF packet.tcp.sport = HTTPS_PORT \/ packet.tcp.dport = HTTPS_PORT THEN "HTTPS"
        ELSE IF packet.tcp.sport = HTTP_PORT \/ packet.tcp.dport = HTTP_PORT THEN "HTTP"
        ELSE "TCP"
    ELSE IF HasLayer(packet, "UDP") THEN
        IF packet.udp.sport = DNS_PORT \/ packet.udp.dport = DNS_PORT THEN "DNS"
        ELSE "UDP"
    ELSE CASE packet.ip.proto = 47 -> "Other(47)"
           [] packet.ip.proto = 50 -> "Other(50)"
           [] OTHER -> "Other"

classify_protocol(packet) ==
    IF HasLayer(packet, "ICMP") THEN "ICMP"
    ELSE IF HasLayer(packet, "TCP") THEN
        IF packet.tcp.sport = HTTPS_PORT \/ packet.tcp.dport = HTTPS_PORT THEN "HTTPS"
        ELSE IF packet.tcp.sport = HTTP_PORT \/ packet.tcp.dport = HTTP_PORT THEN "HTTP"
        ELSE "TCP"
    ELSE IF HasLayer(packet, "UDP") THEN
        IF packet.udp.sport = DNS_PORT \/ packet.udp.dport = DNS_PORT THEN "DNS"
        ELSE "UDP"
    ELSE "Otro"

\* Variant: no test for the IP layer, a packet without one is keyed by the
\* placeholder addresses.
get_flow_key_no_ip_check(packet) ==
    LET ip_src == packet.ip.src
        ip_dst == packet.ip.dst
        protocol == classify_protocol(packet)
        port_src == IF HasLayer(packet, "TCP") THEN packet.tcp.sport
                    ELSE IF HasLayer(packet, "UDP") THEN packet.udp.sport
                    ELSE 0
        port_dst == IF HasLayer(packet, "TCP") THEN packet.tcp.dport
                    ELSE IF HasLayer(packet, "UDP") THEN packet.udp.dport
                    ELSE 0
    IN <<ip_dst, port_dst, ip_src, port_src, protocol>>

\* Variant: the two directions of a conversation are folded into one key, the
\* endpoint with the larger port listed as the source.
get_flow_key_folded(packet) ==
    IF ~HasLayer(packet, "IP") THEN NoneVal
    ELSE LET protocol == classify_protocol(packet)
             port_src == IF HasLayer(packet, "TCP") THEN packet.tcp.sport
                         ELSE IF HasLayer(packet, "UDP") THEN packet.udp.sport
                         ELSE 0
             port_dst == IF HasLayer(packet, "TCP") THEN packet.tcp.dport
                         ELSE IF HasLayer(packet, "UDP") THEN packet.udp.dport
                         ELSE 0
         IN IF port_src < port_dst
            THEN <<packet.ip.src, port_src, packet.ip.dst, port_dst, protocol>>
            ELSE <<packet.ip.dst, port_dst, packet.ip.src, port_src, protocol>>

\* The key is the tuple (ip_dst, port_dst, ip_src, port_src, protocol).
get_flow_key(packet) ==
    IF ~HasLayer(packet, "IP") THEN NoneVal
    ELSE LET ip_src == packet.ip.src
             ip_dst == packet.ip.dst
             protocol == classify_protocol(packet)
             port_src == IF HasLayer(packet, "TCP") THEN packet.tcp.sport
                         ELSE IF HasLayer(packet, "UDP") THEN packet.udp.sport
                         ELSE 0
             port_dst == IF HasLayer(packet, "TCP") THEN packet.tcp.dport
                         ELSE IF HasLayer(packet, "UDP") THEN packet.udp.dport
                         ELSE 0
         IN <<ip_dst, port_dst, ip_src, port_src, protocol>>

----------------------------------------------------------------------------
(* class Flow *)

\* Flow(*key): the constructor takes (ip_dst, port_dst, ip_src, port_src, protocol).
\* oid is the identity of the object: the number of the packet that created it.
FlowInit(key, oid) ==
    [ip_src |-> key[3], ip_dst |-> key[1], port_src |-> key[4], port_dst |-> key[2],
     protocol |-> key[5], packets |-> 0, bytes |-> 0, closed |-> FALSE,
     start_time |-> NoneVal, end_time |-> NoneVal, oid |-> oid]

\* Variant: only FIN is looked for.
HasFinOnly(packet) ==
    /\ HasLayer(packet, "TCP")
    /\ CharIn("F", FlagStr(packet.tcp.flags))

\* Variant: only RST is looked for.
HasRstOnly(packet) ==
    /\ HasLayer(packet, "TCP")
    /\ CharIn("R", FlagStr(packet.tcp.flags))

HasFinOrRst(packet) ==
    /\ HasLayer(packet, "TCP")
    /\ \/ CharIn("F", FlagStr(packet.tcp.flags))
       \/ CharIn("R", FlagStr(packet.tcp.flags))

\* Variant: self.bytes = len(packet) in place of +=.
add_packet_bytes_assigned(self, packet) ==
    LET ts == packet.time
    IN [self EXCEPT
          !.packets = @ + 1,
          !.bytes = packet.len,
          !.start_time = IF @ = NoneVal \/ ts < @[1] THEN <<ts>> ELSE @,
          !.end_time = IF @ = NoneVal \/ ts > @[1] THEN <<ts>> ELSE @,
          !.closed = IF HasFinOrRst(packet) THEN TRUE ELSE @]

\* Variant: end_time is the time of the last packet added, with no comparison.
add_packet_end_is_last(self, packet) ==
    LET ts == packet.time
    IN [self EXCEPT
          !.packets = @ + 1,
          !.bytes = @ + packet.len,
          !.start_time = IF @ = NoneVal \/ ts < @[1] THEN <<ts>> ELSE @,
          !.end_time = <<ts>>,
          !.closed = IF HasFinOrRst(packet) THEN TRUE ELSE @]

add_packet(self, packet) ==
    LET ts == packet.time
    IN [self EXCEPT
          !.packets = @ + 1,
          !.bytes = @ + packet.len,
          !.start_time = IF @ = NoneVal \/ ts < @[1] THEN <<ts>> ELSE @,
          !.end_time = IF @ = NoneVal \/ ts > @[1] THEN <<ts>> ELSE @,
          !.closed = IF HasFinOrRst(packet) THEN TRUE ELSE @]

duration(self) ==
    IF self.start_time # NoneVal /\ self.end_time # NoneVal
    THEN self.end_time[1] - self.start_time[1]
    ELSE 0

----------------------------------------------------------------------------
(* The dict operations aggregate_flows uses *)

DictHas(d, k) == \E i \in 1..Len(d) : d[i].k = k

DictGet(d, k) == d[CHOOSE i \in 1..Len(d) : d[i].k = k].v

\* d.pop(k): the entry leaves the dict, the others keep their order.
DictPop(d, k) == SelectSeq(d, LAMBDA e : e.k # k)

\* d[k] = v: an existing key keeps its position, a new key goes last.
DictSet(d, k, v) ==
    IF DictHas(d, k)
    THEN [i \in 1..Len(d) |-> IF d[i].k = k THEN [k |-> k, v |-> v] ELSE d[i]]
    ELSE Append(d, [k |-> k, v |-> v])

DictValues(d) == [i \in 1..Len(d) |-> d[i].v]

----------------------------------------------------------------------------
(* aggregate_flows *)

\* while (*key, idx) in flows: idx += 1
RECURSIVE FindIdx(_, _, _)
FindIdx(d, key, idx) ==
    IF DictHas(d, Append(key, idx)) THEN FindIdx(d, key, idx + 1) ELSE idx

\* Variant: idx stays 1, the while loop is missing.
FreeIdxAlwaysOne(d, key) == 1

\* Lines 146-149: idx = 1 and the search loop.
FreeIdx(d, key) == FindIdx(d, key, 1)

\* Variant: a closed flow is never moved away, packets keep going to it.
ArchiveClosedNever(d, key) == d

\* Variant: the closed flow is re-keyed where it stands instead of popped and
\* inserted again.
ArchiveClosedInPlace(d, key) ==
    IF DictHas(d, key) /\ DictGet(d, key).closed
    THEN LET idx == FreeIdx(d, key)
         IN [i \in 1..Len(d) |->
               IF d[i].k = key THEN [k |-> Append(key, idx), v |-> d[i].v] ELSE d[i]]
    ELSE d

\* Lines 142-150: a closed flow under key moves to the key (*key, idx).
ArchiveClosed(d, key) ==
    IF DictHas(d, key) /\ DictGet(d, key).closed
    THEN LET closed_flow == DictGet(d, key)
             popped == DictPop(d, key)
             idx == FreeIdx(popped, key)
         IN DictSet(popped, Append(key, idx), closed_flow)
    ELSE d

\* Lines 152-153.
EnsureFlow(d, key, oid) ==
    IF ~DictHas(d, key) THEN DictSet(d, key, FlowInit(key, oid)) ELSE d

\* One iteration of the loop body for a packet whose key is not None.
\* oid is the identity a Flow constructed in this iteration gets.
LoopBody(d, packet, oid) ==
    LET key == get_flow_key(packet)
        archived == ArchiveClosed(d, key)
        ensured == EnsureFlow(archived, key, oid)
    IN DictSet(ensured, key, add_packet(DictGet(ensured, key), packet))

\* One iteration of the loop, the `continue` of line 139 included.
Step(d, packet, oid) ==
    IF get_flow_key(packet) = NoneVal THEN d ELSE LoopBody(d, packet, oid)

\* Variant: every flow is marked closed when the capture ends.
ReturnValueForceClosed(d) == [i \in 1..Len(d) |-> [d[i].v EXCEPT !.closed = TRUE]]

\* Line 157: list(flows.values()).
ReturnValue(d) == DictValues(d)

\* The whole loop over a packet list, from the empty dict.
RECURSIVE AggregateFrom(_, _, _)
AggregateFrom(d, seq, i) ==
    IF i > Len(seq) THEN d ELSE AggregateFrom(Step(d, seq[i], i), seq, i + 1)

aggregate_flows(seq) == ReturnValue(AggregateFrom(<<>>, seq, 1))

----------------------------------------------------------------------------
(* tagging.py: the label of label_packets for one packet *)

label_packets(packet) ==
    IF HasLayer(packet, "ICMP") THEN "ICMP"
    ELSE IF HasLayer(packet, "TCP") THEN
        IF packet.tcp.dport = HTTPS_PORT \/ packet.tcp.sport = HTTPS_PORT THEN "HTTPS"
        ELSE IF packet.tcp.dport = HTTP_PORT \/ packet.tcp.sport = HTTP_PORT THEN "HTTP"
        ELSE "Otro"
    ELSE IF HasLayer(packet, "UDP") THEN
        IF packet.udp.dport = DNS_PORT \/ packet.udp.sport = DNS_PORT THEN "DNS"
        ELSE "Otro"
    ELSE "Otro"

----------------------------------------------------------------------------
(* The packets of the captures explored *)

HostA == "10.0.0.1"
HostB == "10.0.0.2"

TcpPkt(src, dst, sport, dport, flags, len, time) ==
    [layers |-> {"IP", "TCP"}, ip |-> [src |-> src, dst |-> dst, proto |-> 6],
     tcp |-> [sport |-> sport, dport |-> dport, flags |-> flags], udp |-> NoUdp,
     len |-> len, time |-> time]

UdpPkt(src, dst, sport, dport, len, time) ==
    [layers |-> {"IP", "UDP"}, ip |-> [src |-> src, dst |-> dst, proto |-> 17],
     tcp |-> NoTcp, udp |-> [sport |-> sport, dport |-> dport],
     len |-> len, time |-> time]

IcmpPkt(src, dst, len, time) ==
    [layers |-> {"IP", "ICMP"}, ip |-> [src |-> src, dst |-> dst, proto |-> 1],
     tcp |-> NoTcp, udp |-> NoUdp, len |-> len, time |-> time]

\* IP with a transport scapy decodes as none of TCP, UDP, ICMP (GRE is 47, ESP 50).
OtherIpPkt(src, dst, proto, len, time) ==
    [layers |-> {"IP"}, ip |-> [src |-> src, dst |-> dst, proto |-> proto],
     tcp |-> NoTcp, udp |-> NoUdp, len |-> len, time |-> time]

ArpPkt == [layers |-> {}, ip |-> NoIp, tcp |-> NoTcp, udp |-> NoUdp,
           len |-> 42, time |-> 1]

\* TCP over IPv6: scapy's IP is IPv4 only, so the packet has TCP and no IP.
Ipv6TcpPkt == [layers |-> {"TCP"}, ip |-> NoIp,
               tcp |-> [sport |-> 5000, dport |-> 443, flags |-> 17], udp |-> NoUdp,
               len |-> 74, time |-> 2]

\* Flag values: 16 = ACK, 17 = FIN+ACK, 4 = RST, 1 = FIN.
CapturePackets ==
    { TcpPkt(HostA, HostB, 5000, 443, 16, 60, 2),
      TcpPkt(HostA, HostB, 5000, 443, 17, 54, 1),
      TcpPkt(HostA, HostB, 5000, 443, 4, 40, 3),
      TcpPkt(HostB, HostA, 443, 5000, 1, 1500, 3),
      UdpPkt(HostA, HostB, 12345, 53, 80, 1),
      IcmpPkt(HostA, HostB, 98, 2),
      OtherIpPkt(HostA, HostB, 47, 70, 1),
      OtherIpPkt(HostA, HostB, 50, 90, 2),
      ArpPkt,
      Ipv6TcpPkt }

Ports == {53, 80, 443, 5000}

TcpLayers == {NoTcp} \cup [sport : Ports, dport : Ports, flags : {16}]
UdpLayers == {NoUdp} \cup [sport : Ports, dport : Ports]

\* The IP protocol numbers a packet with these layers can carry.
ProtoNumbers(hasIcmp, t, u) ==
    IF t # NoTcp THEN {6}
    ELSE IF u # NoUdp THEN {17}
    ELSE IF hasIcmp THEN {1}
    ELSE {47, 50}

LayersOf(hasIp, hasIcmp, t, u) ==
    (IF hasIp THEN {"IP"} ELSE {}) \cup (IF hasIcmp THEN {"ICMP"} ELSE {})
    \cup (IF t # NoTcp THEN {"TCP"} ELSE {}) \cup (IF u # NoUdp THEN {"UDP"} ELSE {})

\* Every combination of layer presence and ports, with and without an IP layer.
ClassifierPackets ==
    UNION { UNION { UNION {
        { [layers |-> LayersOf(TRUE, hasIcmp, t, u),
           ip |-> [src |-> HostA, dst |-> HostB, proto |-> n],
           tcp |-> t, udp |-> u, len |-> 60, time |-> 1] :
             n \in ProtoNumbers(hasIcmp, t, u) }
        \cup { [layers |-> LayersOf(FALSE, hasIcmp, t, u), ip |-> NoIp,
                tcp |-> t, udp |-> u, len |-> 60, time |-> 1] } :
        u \in UdpLayers } : t \in TcpLayers } : hasIcmp \in BOOLEAN }

----------------------------------------------------------------------------
(* The aggregation run: aggregate_flows stepped packet by packet *)

AggInit ==
    /\ pc = "loop"
    /\ packets = <<>>
    /\ flows = <<>>
    /\ owner = <<>>
    /\ result = <<>>

ClsIdle ==
    /\ cpc = "idle"
    /\ cpkt = ArpPkt
    /\ label = ""
    /\ ckey = NoneVal
    /\ tag = ""

StatsIdle ==
    /\ spc = "idle"
    /\ sflows = <<>>
    /\ stats = NoneVal

Init == AggInit /\ ClsIdle /\ StatsIdle

\* Lines 137-139: the packet has no flow key and is passed over.
SkipPacket(p) ==
    /\ pc = "loop"
    /\ Len(packets) < MaxPackets
    /\ get_flow_key(p) = NoneVal
    /\ packets' = Append(packets, p)
    /\ owner' = Append(owner, 0)
    /\ flows' = Step(flows, p, Len(packets) + 1)
    /\ UNCHANGED <<pc, result, clsVars, statVars>>

\* Lines 137-155: the packet is added to the flow under its key.
IngestPacket(p) ==
    /\ pc = "loop"
    /\ Len(packets) < MaxPackets
    /\ get_flow_key(p) # NoneVal
    /\ packets' = Append(packets, p)
    /\ flows' = Step(flows, p, Len(packets) + 1)
    /\ owner' = Append(owner, DictGet(flows', get_flow_key(p)).oid)
    /\ UNCHANGED <<pc, result, clsVars, statVars>>

\* Line 157, once the capture is exhausted.
Return ==
    /\ pc = "loop"
    /\ pc' = "done"
    /\ result' = ReturnValue(flows)
    /\ UNCHANGED <<packets, flows, owner, clsVars, statVars>>

Next ==
    \/ \E p \in CapturePackets : SkipPacket(p)
    \/ \E p \in CapturePackets : IngestPacket(p)
    \/ Return

Spec == Init /\ [][Next]_vars

----------------------------------------------------------------------------
(* The single-packet run: classify_protocol and get_flow_key on one packet *)

ClsInit ==
    /\ AggInit
    /\ StatsIdle
    /\ cpc = "start"
    /\ cpkt \in ClassifierPackets
    /\ label = ""
    /\ ckey = NoneVal
    /\ tag = ""

Classify ==
    /\ cpc = "start"
    /\ label' = classify_protocol(cpkt)
    /\ cpc' = "classified"
    /\ UNCHANGED <<cpkt, ckey, tag, aggVars, statVars>>

GetFlowKey ==
    /\ cpc = "classified"
    /\ ckey' = get_flow_key(cpkt)
    /\ cpc' = "keyed"
    /\ UNCHANGED <<cpkt, label, tag, aggVars, statVars>>

\* tagging.py, lines 8-38: the label label_packets pairs with the packet.
LabelPackets ==
    /\ cpc = "keyed"
    /\ tag' = label_packets(cpkt)
    /\ cpc' = "labelled"
    /\ UNCHANGED <<cpkt, label, ckey, aggVars, statVars>>

ClsNext == Classify \/ GetFlowKey \/ LabelPackets

SpecClassify == ClsInit /\ [][ClsNext]_vars

----------------------------------------------------------------------------
(* print_stats on a list aggregate_flows returned *)

\* sum(f.packets for f in fs) and sum(f.bytes for f in fs), from position i on.
RECURSIVE SumPackets(_, _)
SumPackets(fs, i) ==
    IF i > Len(fs) THEN 0 ELSE fs[i].packets + SumPackets(fs, i + 1)

RECURSIVE SumBytes(_, _)
SumBytes(fs, i) ==
    IF i > Len(fs) THEN 0 ELSE fs[i].bytes + SumBytes(fs, i + 1)

\* f put into a list sorted by bytes, largest first, behind every element whose
\* bytes are not smaller: the sort is stable.
InsertDesc(sorted, f) ==
    LET n == Cardinality({i \in 1..Len(sorted) : sorted[i].bytes >= f.bytes})
    IN SubSeq(sorted, 1, n) \o <<f>> \o SubSeq(sorted, n + 1, Len(sorted))

RECURSIVE SortFrom(_, _, _)
SortFrom(fs, i, acc) ==
    IF i > Len(fs) THEN acc ELSE SortFrom(fs, i + 1, InsertDesc(acc, fs[i]))

\* f put into a list sorted by bytes, smallest first, stable.
InsertAsc(sorted, f) ==
    LET n == Cardinality({i \in 1..Len(sorted) : sorted[i].bytes <= f.bytes})
    IN SubSeq(sorted, 1, n) \o <<f>> \o SubSeq(sorted, n + 1, Len(sorted))

RECURSIVE SortAscFrom(_, _, _)
SortAscFrom(fs, i, acc) ==
    IF i > Len(fs) THEN acc ELSE SortAscFrom(fs, i + 1, InsertAsc(acc, fs[i]))

\* Variant: sorted(flows, key=lambda f: f.bytes)[::-1], which turns ties around.
SortedByBytesAscReversed(fs) ==
    LET asc == SortAscFrom(fs, 1, <<>>)
    IN [i \in 1..Len(asc) |-> asc[Len(asc) + 1 - i]]

\* Line 202: sorted(flows, key=lambda f: f.bytes, reverse=True).
SortedByBytes(fs) == SortFrom(fs, 1, <<>>)

\* Line 206: sorted_flows[:3].
FirstThree(fs) == SubSeq(fs, 1, IF Len(fs) < 3 THEN Len(fs) ELSE 3)

\* The values print_stats reports (the protocol histogram left out).
print_stats(fs) ==
    LET closed_count == Cardinality({i \in 1..Len(fs) : fs[i].closed})
    IN [total_flows |-> Len(fs),
        total_packets |-> SumPackets(fs, 1),
        total_bytes |-> SumBytes(fs, 1),
        closed_count |-> closed_count,
        open_count |-> Len(fs) - closed_count,
        top3 |-> FirstThree(SortedByBytes(fs))]

MaxStatPackets == 4

\* Packets that give Flows of different and of equal sizes: three of them close
\* their Flow, so a capture can hold several Flows of the same bytes.
StatsPackets ==
    { TcpPkt(HostA, HostB, 5000, 443, 16, 60, 2),
      TcpPkt(HostA, HostB, 5000, 443, 17, 54, 1),
      TcpPkt(HostA, HostB, 5000, 443, 4, 40, 3),
      TcpPkt(HostB, HostA, 443, 5000, 1, 1500, 3) }

\* The lists aggregate_flows returns for the captures made of these packets.
StatsInputs ==
    UNION { {aggregate_flows(seq) : seq \in [1..n -> StatsPackets]} : n \in 0..MaxStatPackets }

StatsInit ==
    /\ AggInit
    /\ ClsIdle
    /\ spc = "start"
    /\ sflows \in StatsInputs
    /\ stats = NoneVal

\* Lines 175-211.
PrintStats ==
    /\ spc = "start"
    /\ stats' = print_stats(sflows)
    /\ spc' = "printed"
    /\ UNCHANGED <<sflows, aggVars, clsVars>>

StatsNext == PrintStats

SpecStats == StatsInit /\ [][StatsNext]_vars

----------------------------------------------------------------------------
(* History read-outs used by the properties *)

Indices(seq) == 1..Len(seq)

IpPacketIndices == {i \in Indices(packets) : "IP" \in packets[i].layers}

RECURSIVE SumLen(_)
SumLen(S) ==
    IF S = {} THEN 0
    ELSE LET i == CHOOSE x \in S : TRUE IN packets[i].len + SumLen(S \ {i})

\* FIN is bit 0 and RST bit 2 of the TCP flags field.
CarriesFinOrRst(p) ==
    /\ "TCP" \in p.layers
    /\ \/ p.tcp.flags % 2 = 1
       \/ (p.tcp.flags \div 4) % 2 = 1

\* The packets of the capture that were added to the Flow object oid.
MembersOf(oid) == {i \in Indices(owner) : owner[i] = oid}

\* The 5-tuple a packet is filed under, read off the packet's layers.
TupleOf(p) ==
    <<p.ip.dst,
      IF "TCP" \in p.layers THEN p.tcp.dport ELSE IF "UDP" \in p.layers THEN p.udp.dport ELSE 0,
      p.ip.src,
      IF "TCP" \in p.layers THEN p.tcp.sport ELSE IF "UDP" \in p.layers THEN p.udp.sport ELSE 0,
      classify_protocol(p)>>

FlowsOf(d) == {d[i].v : i \in Indices(d)}

----------------------------------------------------------------------------
(* C1 *)

\* The packet taken by the step, when the step takes one.
TakesPacket == pc = "loop" /\ pc' = "loop" /\ Len(packets') = Len(packets) + 1

\* The Flow that received the latest earlier IP packet with the tuple of p.
LatestFlowFor(p) ==
    LET same == {i \in IpPacketIndices : TupleOf(packets[i]) = TupleOf(p)}
        last == CHOOSE i \in same : \A j \in same : j <= i
    IN CHOOSE f \in FlowsOf(flows) : f.oid = owner[last]

ReopensClosed(p) ==
    /\ "IP" \in p.layers
    /\ \E i \in IpPacketIndices : TupleOf(packets[i]) = TupleOf(p)
    /\ LatestFlowFor(p).closed

\* C1: closure monotonicity. A Flow whose closed flag is true stays in the table
\* with closed true and with the same packet and byte counts after every step, and
\* the next IP packet with its key is added to a new Flow whose packets is 1 right
\* after that step.
C1_ClosureMonotonic ==
    [][ /\ \A f \in FlowsOf(flows) : f.closed => f \in FlowsOf(flows')
        /\ TakesPacket =>
             LET n == Len(packets')
                 p == packets'[n]
             IN ReopensClosed(p) =>
                  /\ owner'[n] = n
                  /\ \E f \in FlowsOf(flows') : f.oid = n /\ f.packets = 1 ]_vars

\* A closed Flow archived under (*key, idx) next to a newer Flow under its key.
C1_Witness ==
    \E i, j \in Indices(flows) :
        /\ flows[i].v.closed
        /\ Len(flows[i].k) = 6
        /\ flows[j].k = SubSeq(flows[i].k, 1, 5)
        /\ flows[j].v.oid > flows[i].v.oid

----------------------------------------------------------------------------
(* C2, C3 *)

\* C2: packet conservation. The packets counts of the Flows of the table, and of
\* the returned list, add up to the number of packets of the capture that have an
\* IP layer.
C2_PacketConservation ==
    /\ SumPackets(DictValues(flows), 1) = Cardinality(IpPacketIndices)
    /\ pc = "done" => SumPackets(result, 1) = Cardinality(IpPacketIndices)

\* A returned list in which one key was closed, archived and reopened twice, with
\* packets without an IP layer in the capture.
C2_Witness ==
    /\ pc = "done"
    /\ \E i \in Indices(flows) : Len(flows[i].k) = 6 /\ flows[i].k[6] = 2
    /\ Cardinality(IpPacketIndices) < Len(packets)

\* C3: byte conservation. The bytes of the Flows of the table, and of the returned
\* list, add up to the wire lengths of the packets of the capture that have an IP
\* layer.
C3_ByteConservation ==
    /\ SumBytes(DictValues(flows), 1) = SumLen(IpPacketIndices)
    /\ pc = "done" => SumBytes(result, 1) = SumLen(IpPacketIndices)

\* A returned list with a Flow of several packets and a skipped packet.
C3_Witness ==
    /\ pc = "done"
    /\ \E j \in Indices(result) : result[j].packets >= 2
    /\ Len(result) >= 2
    /\ Cardinality(IpPacketIndices) < Len(packets)

----------------------------------------------------------------------------
(* C4 *)

\* Three TCP packets filed under one key: the first with RST, the other two with
\* neither FIN nor RST.
ScenarioB ==
    /\ Len(packets) = 3
    /\ \A i \in 1..3 : {"IP", "TCP"} \subseteq packets[i].layers
    /\ \A i \in 2..3 : TupleOf(packets[i]) = TupleOf(packets[1])
    /\ (packets[1].tcp.flags \div 4) % 2 = 1
    /\ \A i \in 2..3 : ~CarriesFinOrRst(packets[i])

\* C4 as stated: for scenario B the returned list is two Flows, the first with
\* packets = 2 and closed, the second with packets = 1 and not closed.
C4_ScenarioB_AsStated ==
    (pc = "done" /\ ScenarioB) =>
        /\ Len(result) = 2
        /\ result[1].packets = 2 /\ result[1].closed
        /\ result[2].packets = 1 /\ ~result[2].closed

\* C4 amended: for scenario B the returned list is two Flows, the first with
\* packets = 1 and closed (the RST packet that creates the Flow closes it), the
\* second with packets = 2 and not closed.
C4_ScenarioB ==
    (pc = "done" /\ ScenarioB) =>
        /\ Len(result) = 2
        /\ result[1].packets = 1 /\ result[1].closed
        /\ result[2].packets = 2 /\ ~result[2].closed
        /\ \A j \in 1..2 :
             <<result[j].ip_dst, result[j].port_dst, result[j].ip_src,
               result[j].port_src, result[j].protocol>> = TupleOf(packets[1])

C4_Witness == pc = "done" /\ ScenarioB

----------------------------------------------------------------------------
(* C5 *)

\* The number of the packet whose FIN or RST closed the Flow f.
ClosedAt(f) ==
    LET fins == {i \in MembersOf(f.oid) : CarriesFinOrRst(packets[i])}
    IN CHOOSE i \in fins : \A j \in fins : i <= j

\* The Flows created later than f by packets with the tuple of f's first packet.
LaterSameKey(f) ==
    {o \in {owner[i] : i \in Indices(owner)} :
        o > f.oid /\ TupleOf(packets[o]) = TupleOf(packets[f.oid])}

\* The number of the packet at whose iteration f was last inserted into the dict:
\* the packet that created its successor when there is one, else its own first.
InsertedAt(f) ==
    IF LaterSameKey(f) = {} THEN f.oid
    ELSE CHOOSE o \in LaterSameKey(f) : \A x \in LaterSameKey(f) : o <= x

\* C5 as stated: the returned list is in closure order, and every closed Flow
\* precedes every Flow still open at the end of the capture.
C5_ClosureOrder_AsStated ==
    pc = "done" =>
        \A i, j \in Indices(result) :
            /\ (result[i].closed /\ result[j].closed
                /\ ClosedAt(result[i]) < ClosedAt(result[j])) => i < j
            /\ (result[i].closed /\ ~result[j].closed) => i < j

\* C5 amended: the returned list is in the insertion order of the dict. A closed
\* Flow is moved to the end only when a later packet with its key arrives, right
\* before the Flow that packet creates, and otherwise stays where it was created;
\* so the Flows of one key are in closure order with the open one last.
C5_InsertionOrder ==
    pc = "done" =>
        \A i, j \in Indices(result) :
            /\ i < j =>
                 \/ InsertedAt(result[i]) < InsertedAt(result[j])
                 \/ /\ InsertedAt(result[i]) = InsertedAt(result[j])
                    /\ result[i].closed
                    /\ result[j].oid = InsertedAt(result[i])
            /\ (TupleOf(packets[result[i].oid]) = TupleOf(packets[result[j].oid])
                /\ result[i].oid < result[j].oid) => (i < j /\ result[i].closed)

\* A returned list where a Flow closed earlier follows a Flow closed later.
C5_Witness ==
    /\ pc = "done"
    /\ \E i, j \in Indices(result) :
        /\ i < j
        /\ result[i].closed /\ result[j].closed
        /\ ClosedAt(result[j]) < ClosedAt(result[i])

----------------------------------------------------------------------------
(* C6 *)

\* C6: end of capture. Every Flow of the table that is not closed when the loop
\* ends is in the returned list as it is, closed = False; and a returned Flow has
\* closed = True exactly when a packet with FIN or RST was added to it.
C6_EndOfCapture ==
    pc = "done" =>
        /\ \A i \in Indices(flows) :
             ~flows[i].v.closed =>
                 \E j \in Indices(result) : result[j] = flows[i].v /\ ~result[j].closed
        /\ \A j \in Indices(result) :
             result[j].closed <=>
                 \E m \in MembersOf(result[j].oid) : CarriesFinOrRst(packets[m])

\* A returned list with a Flow left open after several packets and a closed Flow.
C6_Witness ==
    /\ pc = "done"
    /\ \E j \in Indices(result) : ~result[j].closed /\ result[j].packets >= 2
    /\ \E j \in Indices(result) : result[j].closed

----------------------------------------------------------------------------
(* C7 *)

HasIpLayer(p) == "IP" \in p.layers

\* A dict entry without the identity of its Flow object.
EntryFields(e) ==
    [k |-> e.k, ip_src |-> e.v.ip_src, ip_dst |-> e.v.ip_dst,
     port_src |-> e.v.port_src, port_dst |-> e.v.port_dst, protocol |-> e.v.protocol,
     packets |-> e.v.packets, bytes |-> e.v.bytes, closed |-> e.v.closed,
     start_time |-> e.v.start_time, end_time |-> e.v.end_time]

DictFields(d) == [i \in 1..Len(d) |-> EntryFields(d[i])]

\* C7: packets without an IP layer have no effect. The table after any prefix of
\* the capture, and the returned list, are what the same packets with those
\* without an IP layer removed give, key by key and field by field.
C7_NonIpSkipped ==
    LET ipOnly == SelectSeq(packets, HasIpLayer)
        expected == AggregateFrom(<<>>, ipOnly, 1)
    IN /\ DictFields(flows) = DictFields(expected)
       /\ pc = "done" =>
            /\ Len(result) = Len(expected)
            /\ \A j \in Indices(result) :
                 [result[j] EXCEPT !.oid = 0] = [expected[j].v EXCEPT !.oid = 0]

\* Packets without an IP layer, one of them TCP with FIN, between packets of a
\* TCP flow.
C7_Witness ==
    /\ pc = "done"
    /\ Len(packets) >= 3
    /\ \E i \in Indices(packets) : packets[i] = Ipv6TcpPkt
    /\ HasIpLayer(packets[1]) /\ ~HasIpLayer(packets[2]) /\ HasIpLayer(packets[3])
    /\ owner[1] = owner[3]

----------------------------------------------------------------------------
(* C8 *)

Labels == {"ICMP", "HTTPS", "HTTP", "TCP", "DNS", "UDP", "Otro"}

\* C8: classifier decision order. Once classify_protocol has returned for a
\* packet, the label is one of the labels; it is ICMP when an ICMP layer is
\* present, whatever else is; otherwise for TCP it is HTTPS when a port is 443,
\* else HTTP when a port is 80, else TCP; otherwise for UDP it is DNS when a port
\* is 53, else UDP.
C8_DecisionOrder ==
    cpc \in {"classified", "keyed"} =>
        LET icmp == "ICMP" \in cpkt.layers
            tcp == "TCP" \in cpkt.layers
            udp == "UDP" \in cpkt.layers
            tcpPorts == {cpkt.tcp.sport, cpkt.tcp.dport}
            udpPorts == {cpkt.udp.sport, cpkt.udp.dport}
        IN /\ label \in Labels
           /\ icmp => label = "ICMP"
           /\ (~icmp /\ tcp /\ 443 \in tcpPorts) => label = "HTTPS"
           /\ (~icmp /\ tcp /\ 443 \notin tcpPorts /\ 80 \in tcpPorts) => label = "HTTP"
           /\ (~icmp /\ tcp /\ 443 \notin tcpPorts /\ 80 \notin tcpPorts) => label = "TCP"
           /\ (~icmp /\ ~tcp /\ udp /\ 53 \in udpPorts) => label = "DNS"
           /\ (~icmp /\ ~tcp /\ udp /\ 53 \notin udpPorts) => label = "UDP"

\* A TCP packet from port 80 to port 443, classified.
C8_Witness ==
    /\ cpc = "classified"
    /\ cpkt.layers = {"IP", "TCP"}
    /\ cpkt.tcp.sport = 80 /\ cpkt.tcp.dport = 443
    /\ label = "HTTPS"

----------------------------------------------------------------------------
(* C9 *)

\* An IP packet with none of the ICMP, TCP and UDP layers.
Unrecognized(p) == "IP" \in p.layers /\ p.layers \cap {"ICMP", "TCP", "UDP"} = {}

SameAddresses(p, q) == p.ip.src = q.ip.src /\ p.ip.dst = q.ip.dst

\* The dict entry that holds the Flow object oid.
EntryOf(oid) == flows[CHOOSE i \in Indices(flows) : flows[i].v.oid = oid]

\* C9 as stated: two packets of unrecognized transport between the same addresses
\* with different IP protocol numbers are filed under different keys, in
\* different Flows.
C9_OtherByProtoNumber_AsStated ==
    \A i, j \in Indices(packets) :
        (/\ Unrecognized(packets[i]) /\ Unrecognized(packets[j])
         /\ SameAddresses(packets[i], packets[j])
         /\ packets[i].ip.proto # packets[j].ip.proto) =>
            /\ owner[i] # owner[j]
            /\ SubSeq(EntryOf(owner[i]).k, 1, 5) # SubSeq(EntryOf(owner[j]).k, 1, 5)

\* C9 amended: a packet of unrecognized transport is labelled Otro whatever its
\* IP protocol number, with ports 0, so two such packets between the same
\* addresses are filed under the same key, in the same Flow.
C9_OtherIsOneLabel ==
    /\ \A i \in Indices(packets) :
         Unrecognized(packets[i]) =>
            /\ EntryOf(owner[i]).v.protocol = "Otro"
            /\ EntryOf(owner[i]).k =
                 <<packets[i].ip.dst, 0, packets[i].ip.src, 0, "Otro">>
    /\ \A i, j \in Indices(packets) :
         (/\ Unrecognized(packets[i]) /\ Unrecognized(packets[j])
          /\ SameAddresses(packets[i], packets[j])) => owner[i] = owner[j]

\* A GRE and an ESP packet between the same addresses, both taken.
C9_Witness ==
    \E i, j \in Indices(packets) :
        /\ Unrecognized(packets[i]) /\ Unrecognized(packets[j])
        /\ packets[i].ip.proto = 47 /\ packets[j].ip.proto = 50
        /\ EntryOf(owner[i]).v.packets >= 2

----------------------------------------------------------------------------
(* C10 *)

\* C10: portless protocols. Every key get_flow_key returns with the label ICMP
\* or Otro has source port 0 and destination port 0, also for a packet that has
\* an ICMP layer together with a TCP or UDP layer.
C10_PortlessKeys ==
    (cpc = "keyed" /\ ckey # NoneVal /\ ckey[5] \in {"ICMP", "Otro"}) =>
        ckey[2] = 0 /\ ckey[4] = 0

----------------------------------------------------------------------------
(* C11 *)

\* The transport ports of a packet: those of TCP, else of UDP, else 0.
SrcPort(p) ==
    IF "TCP" \in p.layers THEN p.tcp.sport ELSE IF "UDP" \in p.layers THEN p.udp.sport ELSE 0

DstPort(p) ==
    IF "TCP" \in p.layers THEN p.tcp.dport ELSE IF "UDP" \in p.layers THEN p.udp.dport ELSE 0

\* q travels from the destination endpoint of p to its source endpoint.
ReverseOf(p, q) ==
    /\ q.ip.src = p.ip.dst /\ SrcPort(q) = DstPort(p)
    /\ q.ip.dst = p.ip.src /\ DstPort(q) = SrcPort(p)

\* C11: no direction folding. Two IP packets of opposite directions between two
\* different endpoints, with the same protocol label, are in different Flows filed
\* under different keys; and the address and port fields of every Flow are those
\* of each packet added to it.
C11_NoDirectionFolding ==
    /\ \A i, j \in IpPacketIndices :
         (/\ ReverseOf(packets[i], packets[j])
          /\ <<packets[i].ip.src, SrcPort(packets[i])>> # <<packets[i].ip.dst, DstPort(packets[i])>>
          /\ EntryOf(owner[i]).v.protocol = EntryOf(owner[j]).v.protocol) =>
            /\ owner[i] # owner[j]
            /\ SubSeq(EntryOf(owner[i]).k, 1, 5) # SubSeq(EntryOf(owner[j]).k, 1, 5)
    /\ \A i \in IpPacketIndices :
         LET f == EntryOf(owner[i]).v
         IN /\ f.ip_src = packets[i].ip.src /\ f.port_src = SrcPort(packets[i])
            /\ f.ip_dst = packets[i].ip.dst /\ f.port_dst = DstPort(packets[i])

\* Both directions of the HTTPS conversation taken, the reverse one after the
\* forward Flow got two packets.
C11_Witness ==
    \E i, j \in IpPacketIndices :
        /\ ReverseOf(packets[i], packets[j])
        /\ packets[i].ip.src # packets[i].ip.dst
        /\ EntryOf(owner[i]).v.protocol = EntryOf(owner[j]).v.protocol
        /\ EntryOf(owner[i]).v.packets >= 2

----------------------------------------------------------------------------
(* C12 *)

HasFinBit(p) == p.tcp.flags % 2 = 1
HasRstBit(p) == (p.tcp.flags \div 4) % 2 = 1

\* n >= 1 TCP packets filed under one key with a port 443, of which the last one
\* and no other carries FIN.
ScenarioA ==
    /\ Len(packets) >= 1
    /\ \A i \in Indices(packets) :
         /\ packets[i].layers = {"IP", "TCP"}
         /\ 443 \in {packets[i].tcp.sport, packets[i].tcp.dport}
         /\ TupleOf(packets[i]) = TupleOf(packets[1])
         /\ HasFinBit(packets[i]) <=> i = Len(packets)

\* C12 as stated: for scenario A the returned list is one Flow with packets = n,
\* closed, protocol HTTPS.
C12_ScenarioA_AsStated ==
    (pc = "done" /\ ScenarioA) =>
        /\ Len(result) = 1
        /\ result[1].packets = Len(packets)
        /\ result[1].closed
        /\ result[1].protocol = "HTTPS"

\* C12 amended: for scenario A in which, moreover, no packet before the last
\* carries RST, the returned list is one Flow with packets = n, closed, protocol
\* HTTPS.
C12_ScenarioA ==
    (/\ pc = "done"
     /\ ScenarioA
     /\ \A i \in 1..(Len(packets) - 1) : ~HasRstBit(packets[i])) =>
        /\ Len(result) = 1
        /\ result[1].packets = Len(packets)
        /\ result[1].closed
        /\ result[1].protocol = "HTTPS"

\* Scenario A with three packets and no RST, returned.
C12_Witness ==
    /\ pc = "done"
    /\ ScenarioA
    /\ Len(packets) = 3
    /\ \A i \in 1..2 : ~HasRstBit(packets[i])

----------------------------------------------------------------------------
(* C13 *)

\* The timestamps of the packets added to the Flow object oid.
TimesOf(oid) == {packets[i].time : i \in MembersOf(oid)}

\* C13: timestamp extrema. Every Flow of the table has received a packet, its
\* start_time is the least and its end_time the greatest timestamp of the packets
\* added to it, so start_time <= end_time and duration() >= 0, in whatever order
\* the timestamps arrive.
C13_TimestampExtrema ==
    \A f \in FlowsOf(flows) :
        /\ f.packets >= 1
        /\ TimesOf(f.oid) # {}
        /\ f.start_time # NoneVal /\ f.end_time # NoneVal
        /\ f.start_time[1] \in TimesOf(f.oid)
        /\ f.end_time[1] \in TimesOf(f.oid)
        /\ \A t \in TimesOf(f.oid) : f.start_time[1] <= t /\ t <= f.end_time[1]
        /\ f.start_time[1] <= f.end_time[1]
        /\ duration(f) >= 0
        /\ duration(f) = f.end_time[1] - f.start_time[1]

\* A Flow of three packets of which a later one is older than an earlier one.
C13_Witness ==
    \E f \in FlowsOf(flows) :
        /\ f.packets = 3
        /\ \E i, j \in MembersOf(f.oid) : i < j /\ packets[j].time < packets[i].time
        /\ f.start_time[1] < f.end_time[1]

----------------------------------------------------------------------------
(* C15 *)

\* The position in the list handed to print_stats of the Flow object f.
PositionOf(f) == CHOOSE i \in Indices(sflows) : sflows[i].oid = f.oid

\* The Flow at position i ranks before the one at position j: more bytes, or as
\* many and earlier in the list.
RanksBefore(i, j) ==
    \/ sflows[i].bytes > sflows[j].bytes
    \/ sflows[i].bytes = sflows[j].bytes /\ i < j

\* C15: top 3. The Flows print_stats reports as top 3 are min(3, number of Flows)
\* Flows of the list; they are in descending order of bytes, equal bytes in list
\* order; and every Flow left out has no more bytes than any of them and, with
\* equal bytes, stands later in the list.
C15_Top3 ==
    spc = "printed" =>
        LET top == stats.top3
            chosen == {PositionOf(top[a]) : a \in Indices(top)}
        IN /\ Len(top) = IF Len(sflows) < 3 THEN Len(sflows) ELSE 3
           /\ \A a \in Indices(top) :
                \E i \in Indices(sflows) : sflows[i] = top[a]
           /\ Cardinality(chosen) = Len(top)
           /\ \A a, b \in Indices(top) :
                a < b => RanksBefore(PositionOf(top[a]), PositionOf(top[b]))
           /\ \A j \in Indices(sflows) \ chosen :
                \A i \in chosen : RanksBefore(i, j)

\* Four Flows, two of them of equal bytes in the top 3 and one of those bytes
\* left out.
C15_Witness ==
    /\ spc = "printed"
    /\ Len(sflows) = 4
    /\ stats.top3[2].bytes = stats.top3[3].bytes
    /\ \E j \in Indices(sflows) :
         /\ sflows[j].bytes = stats.top3[3].bytes
         /\ \A a \in 1..3 : stats.top3[a].oid # sflows[j].oid

----------------------------------------------------------------------------
(* C16 *)

\* C16: classifier equivalence. For every packet, the label label_packets of
\* tagging.py gives equals the label classify_protocol of traffic.py gives.
C16_ClassifiersAgree ==
    cpc = "labelled" => tag = label

----------------------------------------------------------------------------
(* C17 *)

\* The lengths an IPv4 header can have: 5 to 15 words of 4 bytes.
IpHeaderLengths == {4 * w : w \in 5..15}

\* The sum of max(0, len - h[i]) over the packets i in S, h[i] the length of the
\* IP header of packet i.
RECURSIVE SumPayload(_, _)
SumPayload(S, h) ==
    IF S = {} THEN 0
    ELSE LET i == CHOOSE x \in S : TRUE
             d == packets[i].len - h[i]
         IN (IF d >= 0 THEN d ELSE 0) + SumPayload(S \ {i}, h)

\* C17 as stated: every Flow of the table carries payload_bytes, the sum of
\* max(0, wire length - IP header length) over the packets added to it (for
\* some IP header lengths of those packets), with bytes >= payload_bytes >= 0
\* and packets >= 1.
C17_PayloadAccounting_AsStated ==
    \A f \in FlowsOf(flows) :
        /\ "payload_bytes" \in DOMAIN f
        /\ \E h \in [MembersOf(f.oid) -> IpHeaderLengths] :
              f.payload_bytes = SumPayload(MembersOf(f.oid), h)
        /\ f.bytes >= f.payload_bytes
        /\ f.payload_bytes >= 0
        /\ f.packets >= 1

\* C17, amended: byte accounting. A Flow carries no payload_bytes; the one byte
\* count it carries, bytes, is the sum of the whole wire lengths of the packets
\* added to it, no header length taken off, and bytes >= 0 and packets >= 1,
\* packets being the number of packets added to it.
C17_ByteAccounting ==
    \A f \in FlowsOf(flows) :
        /\ "payload_bytes" \notin DOMAIN f
        /\ f.bytes = SumLen(MembersOf(f.oid))
        /\ f.bytes >= 0
        /\ f.packets >= 1
        /\ f.packets = Cardinality(MembersOf(f.oid))

\* A Flow of three packets of different lengths, next to another Flow.
C17_Witness ==
    \E f \in FlowsOf(flows) :
        /\ f.packets = 3
        /\ \E i, j \in MembersOf(f.oid) : packets[i].len # packets[j].len
        /\ \E g \in FlowsOf(flows) : g.oid # f.oid

----------------------------------------------------------------------------
(* C18 *)

\* The packets with FIN or RST among those added to the Flow object oid.
ClosersOf(oid) == {i \in MembersOf(oid) : CarriesFinOrRst(packets[i])}

\* The IP packets of the capture that have a TCP layer with FIN or RST.
ClosingPackets == {i \in IpPacketIndices : CarriesFinOrRst(packets[i])}

\* C18: every closed Flow holds exactly one packet with FIN or RST, the last one
\* added to it; so the closed Flows of the table, and of the returned list, are as
\* many as the IP packets of the capture with a TCP layer carrying FIN or RST.
C18_OneCloserPerClosedFlow ==
    /\ \A f \in FlowsOf(flows) :
         f.closed =>
            /\ Cardinality(ClosersOf(f.oid)) = 1
            /\ \A i \in ClosersOf(f.oid) : \A m \in MembersOf(f.oid) : m <= i
    /\ Cardinality({i \in Indices(flows) : flows[i].v.closed}) = Cardinality(ClosingPackets)
    /\ pc = "done" =>
         Cardinality({j \in Indices(result) : result[j].closed}) = Cardinality(ClosingPackets)

\* A returned list with two closed Flows, one of several packets, from a capture
\* that also holds a FIN packet without an IP layer.
C18_Witness ==
    /\ pc = "done"
    /\ Cardinality({j \in Indices(result) : result[j].closed}) = 2
    /\ \E j \in Indices(result) : result[j].closed /\ result[j].packets >= 2
    /\ \E i \in Indices(packets) : packets[i] = Ipv6TcpPkt

----------------------------------------------------------------------------
(* C19 *)

KeysOf(d) == {d[i].k : i \in Indices(d)}

\* The indices idx of the entries of d filed under (*key, idx).
ArchiveIndices(d, key) ==
    {d[i].k[6] : i \in {x \in Indices(d) : Len(d[x].k) = 6 /\ SubSeq(d[x].k, 1, 5) = key}}

\* The shape of a table d: keys are 5-tuples or 6-tuples, no key twice; an entry
\* under (*key, idx) is closed and is no key of any packet; the indices of a key
\* are 1..n, in the order the Flows were closed; the search for a free index ends
\* at n + 1.
ArchiveShape(d) ==
    /\ \A i \in Indices(d) : Len(d[i].k) \in {5, 6}
    /\ \A i, j \in Indices(d) : d[i].k = d[j].k => i = j
    /\ \A i \in Indices(d) :
         Len(d[i].k) = 6 =>
            /\ d[i].v.closed
            /\ \A p \in CapturePackets : get_flow_key(p) # d[i].k
    /\ \A i \in Indices(d) :
         LET key == SubSeq(d[i].k, 1, 5)
             used == ArchiveIndices(d, key)
         IN /\ used = 1..Cardinality(used)
            /\ FreeIdx(d, key) = Cardinality(used) + 1
    /\ \A i, j \in Indices(d) :
         (/\ Len(d[i].k) = 6 /\ Len(d[j].k) = 6
          /\ SubSeq(d[i].k, 1, 5) = SubSeq(d[j].k, 1, 5)
          /\ d[i].k[6] < d[j].k[6]) => d[i].v.oid < d[j].v.oid

\* C19: archiving loses and overwrites nothing. In every step the table does not
\* shrink and every Flow in it stays in it; a Flow that changes key was closed
\* under its 5-tuple key and moves to (*key, idx) with idx the smallest positive
\* integer with (*key, idx) not in the table; and the table keeps its shape
\* (indices 1..n per key in closure order, archive keys distinct from all 5-tuple
\* keys, a terminating index search, one entry per key).
C19_ArchiveKeepsAll ==
    [][ /\ Len(flows') >= Len(flows)
        /\ \A i \in Indices(flows) :
             \E j \in Indices(flows') :
                /\ flows'[j].v.oid = flows[i].v.oid
                /\ flows'[j].k # flows[i].k =>
                     /\ Len(flows[i].k) = 5
                     /\ flows[i].v.closed
                     /\ flows'[j].v = flows[i].v
                     /\ Len(flows'[j].k) = 6
                     /\ SubSeq(flows'[j].k, 1, 5) = flows[i].k
                     /\ flows'[j].k[6] >= 1
                     /\ flows'[j].k \notin KeysOf(flows)
                     /\ \A n \in 1..(flows'[j].k[6] - 1) :
                          Append(flows[i].k, n) \in KeysOf(flows)
        /\ ArchiveShape(flows)
        /\ ArchiveShape(flows') ]_vars

\* Two Flows of one key archived under the indices 1 and 2 and a third one open
\* under the 5-tuple key.
C19_Witness ==
    \E i, j, l \in Indices(flows) :
        /\ Len(flows[i].k) = 6 /\ flows[i].k[6] = 1
        /\ Len(flows[j].k) = 6 /\ flows[j].k[6] = 2
        /\ flows[l].k = SubSeq(flows[i].k, 1, 5)
        /\ flows[l].k = SubSeq(flows[j].k, 1, 5)
        /\ ~flows[l].v.closed

====
